---------------------------- MODULE Spec2Model ----------------------------
(***************************************************************************)
(* A model of the wcagcontrast crate (src/src/lib.rs): the Color value     *)
(* type, its constructors and accessor, the hexadecimal parser             *)
(* Color::from_str, and the WCAG relative luminance and contrast ratio.    *)
(*                                                                         *)
(* Strings are sequences of characters; a character is a one-character     *)
(* TLA+ string, except "U+00E9" which stands for a character whose UTF-8   *)
(* encoding takes two bytes.  Rust slices a &str by BYTE offsets and       *)
(* panics when an offset is past the end or inside a character.            *)
(***************************************************************************)
EXTENDS Integers, Sequences, FiniteSets, TLC

VARIABLES
    input,      \* the &str handed to Color::from_str
    parsed,     \* <<outcome>> of Color::from_str(input), <<>> before the call
    bytes1,     \* the (u8, u8, u8) the first color is made of
    bytes2,     \* the (u8, u8, u8) the second color is made of
    fg,         \* <<Color::new(bytes1)>>, <<>> before the call
    bg,         \* <<Color::new(bytes2)>>, <<>> before the call
    tuple_out,  \* <<fg.rgb()>>
    from_out,   \* <<Color::from(..)>> of bytes1, then of fg.rgb()
    lum_fg,     \* <<fg.relative_luminance()>>
    lum_bg,     \* <<bg.relative_luminance()>>
    ratio,      \* <<fg.contrast_ratio(&bg)>>
    ratio_rev,  \* <<bg.contrast_ratio(&fg)>>
    pc          \* the last call made

vars == <<input, parsed, bytes1, bytes2, fg, bg, tuple_out, from_out,
          lum_fg, lum_bg, ratio, ratio_rev, pc>>

-----------------------------------------------------------------------------
(* Bounds of the model.                                                    *)

\* characters that may follow index 6 of the input
MaxTail == 1
\* characters at indices 1..6 that may be something else than a hex digit
MaxBad == 1
\* channel values between 0 and 255 besides the two on either side of the
\* branch of component_relative_luminance
Shades == 0

-----------------------------------------------------------------------------
(* Color: struct Color { r: u8, g: u8, b: u8 } with derived PartialEq.     *)

U8 == 0 .. 255

Color == [r : U8, g : U8, b : U8]

\* Color::new
new(r, g, b) == [r |-> r, g |-> g, b |-> b]

\* Color::rgb with the green and blue channels exchanged: a fault the
\* round trip of C9 has to detect
rgb_swapped(self) == <<self.r, self.b, self.g>>

\* Color::rgb
rgb(self) == <<self.r, self.g, self.b>>

\* impl From<(u8, u8, u8)> for Color
from(tuple) == new(tuple[1], tuple[2], tuple[3])

-----------------------------------------------------------------------------
(* UTF-8 strings and byte slicing.                                         *)

WideChar == "U+00E9"

\* the UTF-8 bytes of one character; "cont" marks a continuation byte
Utf8(c) == IF c = WideChar THEN <<"lead", "cont">> ELSE <<c>>

RECURSIVE as_bytes(_)
as_bytes(str) ==
    IF str = <<>> THEN <<>> ELSE Utf8(Head(str)) \o as_bytes(Tail(str))

\* str::is_char_boundary on the byte sequence
is_char_boundary(bytes, i) ==
    \/ i = 0
    \/ i = Len(bytes)
    \/ i < Len(bytes) /\ bytes[i + 1] # "cont"

\* &s[begin .. end]: <<slice>>, or <<>> when the index expression panics
Slice(bytes, begin, end) ==
    IF /\ end <= Len(bytes)
       /\ is_char_boundary(bytes, begin)
       /\ is_char_boundary(bytes, end)
    THEN << SubSeq(bytes, begin + 1, end) >>
    ELSE <<>>

-----------------------------------------------------------------------------
(* u8::from_str_radix(src, 16), as the standard library defines it.        *)

DigitChars == <<"0", "1", "2", "3", "4", "5", "6", "7", "8", "9">>
LowerChars == <<"a", "b", "c", "d", "e", "f">>
UpperChars == <<"A", "B", "C", "D", "E", "F">>

Index(seq, c) == CHOOSE i \in 1 .. Len(seq) : seq[i] = c
InSeq(seq, c) == \E i \in 1 .. Len(seq) : seq[i] = c

\* char::to_digit(16) knowing no upper-case digit: a fault the
\* case-insensitivity of C1 has to detect
to_digit_lower_only(c) ==
    IF InSeq(DigitChars, c) THEN << Index(DigitChars, c) - 1 >>
    ELSE IF InSeq(LowerChars, c) THEN << Index(LowerChars, c) + 9 >>
    ELSE <<>>

\* char::to_digit(16): <<value>> or <<>>
to_digit(c) ==
    IF InSeq(DigitChars, c) THEN << Index(DigitChars, c) - 1 >>
    ELSE IF InSeq(LowerChars, c) THEN << Index(LowerChars, c) + 9 >>
    ELSE IF InSeq(UpperChars, c) THEN << Index(UpperChars, c) + 9 >>
    ELSE <<>>

RECURSIVE Accumulate(_, _)
\* the digit loop: result = result * 16 + digit; <<>> is Err(InvalidDigit)
\* or Err(PosOverflow)
Accumulate(digits, result) ==
    IF digits = <<>> THEN << result >>
    ELSE LET d == to_digit(Head(digits))
         IN  IF d = <<>> THEN <<>>
             ELSE IF result * 16 + d[1] > 255 THEN <<>>
             ELSE Accumulate(Tail(digits), result * 16 + d[1])

\* <<value>> for Ok(value), <<>> for Err(ParseIntError).  An unsigned type
\* accepts one leading '+' and no '-'.
from_str_radix(src) ==
    IF src = <<>> THEN <<>>
    ELSE IF Len(src) = 1 /\ src[1] \in {"+", "-"} THEN <<>>
    ELSE IF src[1] = "+" THEN Accumulate(Tail(src), 0)
    ELSE Accumulate(src, 0)

-----------------------------------------------------------------------------
(* impl FromStr for Color.  The outcome is Ok(color), Err(ParseIntError)   *)
(* or a panic of the slice index; `?` returns at the first Err, and the    *)
(* three fields are sliced and parsed in order.                            *)

Ok(c) == [tag |-> "Ok", val |-> << c >>]
Err == [tag |-> "Err", val |-> <<>>]
Panic == [tag |-> "Panic", val |-> <<>>]

\* u8::from_str_radix(&s[begin .. end], 16)
ParseField(bytes, begin, end) ==
    LET sl == Slice(bytes, begin, end)
    IN  IF sl = <<>> THEN Panic
        ELSE LET v == from_str_radix(sl[1])
             IN  IF v = <<>> THEN Err ELSE Ok(v[1])

from_str(str) ==
    LET bytes == as_bytes(str)
        r == ParseField(bytes, 1, 3)
        g == ParseField(bytes, 3, 5)
        b == ParseField(bytes, 5, 7)
    IN  IF r.tag # "Ok" THEN r
        ELSE IF g.tag # "Ok" THEN g
        ELSE IF b.tag # "Ok" THEN b
        ELSE Ok(new(r.val[1], g.val[1], b.val[1]))

-----------------------------------------------------------------------------
Max(a, b) == IF a >= b THEN a ELSE b
Min(a, b) == IF a <= b THEN a ELSE b

(* Natural numbers of any size: little-endian sequences of limbs in base   *)
(* 2^15, without leading zero limbs; <<>> is zero.                         *)
LimbBits == 15
Base == 2 ^ LimbBits

RECURSIVE Trim(_)
Trim(x) == IF x # <<>> /\ x[Len(x)] = 0 THEN Trim(SubSeq(x, 1, Len(x) - 1)) ELSE x

RECURSIVE FromInt(_)
FromInt(n) == IF n = 0 THEN <<>> ELSE <<n % Base>> \o FromInt(n \div Base)

Limb(x, i) == IF i <= Len(x) THEN x[i] ELSE 0

RECURSIVE CmpFrom(_, _, _)
CmpFrom(x, y, i) ==
    IF i = 0 THEN 0
    ELSE IF Limb(x, i) < Limb(y, i) THEN -1
    ELSE IF Limb(x, i) > Limb(y, i) THEN 1
    ELSE CmpFrom(x, y, i - 1)


\* -1, 0, 1 as x < y, x = y, x > y
Cmp(x, y) == CmpFrom(x, y, Max(Len(x), Len(y)))

RECURSIVE AddFrom(_, _, _, _)
AddFrom(x, y, i, carry) ==
    IF i > Len(x) /\ i > Len(y)
    THEN IF carry = 0 THEN <<>> ELSE <<carry>>
    ELSE <<(Limb(x, i) + Limb(y, i) + carry) % Base>>
             \o AddFrom(x, y, i + 1, (Limb(x, i) + Limb(y, i) + carry) \div Base)

Add(x, y) == AddFrom(x, y, 1, 0)

RECURSIVE SubFrom(_, _, _, _)
SubFrom(x, y, i, borrow) ==
    IF i > Len(x) THEN <<>>
    ELSE IF Limb(x, i) - Limb(y, i) - borrow < 0
         THEN <<Limb(x, i) - Limb(y, i) - borrow + Base>> \o SubFrom(x, y, i + 1, 1)
         ELSE <<Limb(x, i) - Limb(y, i) - borrow>> \o SubFrom(x, y, i + 1, 0)

\* x - y for x >= y
Sub(x, y) == Trim(SubFrom(x, y, 1, 0))

RECURSIVE MulLimbFrom(_, _, _, _)
MulLimbFrom(x, d, i, carry) ==
    IF i > Len(x)
    THEN IF carry = 0 THEN <<>> ELSE <<carry>>
    ELSE <<(x[i] * d + carry) % Base>>
             \o MulLimbFrom(x, d, i + 1, (x[i] * d + carry) \div Base)

\* x * d for a limb d
MulLimb(x, d) == IF d = 0 THEN <<>> ELSE MulLimbFrom(x, d, 1, 0)

\* x * Base
ShlLimb(x) == IF x = <<>> THEN <<>> ELSE <<0>> \o x

RECURSIVE Mul(_, _)
Mul(x, y) ==
    IF y = <<>> \/ x = <<>> THEN <<>>
    ELSE Add(MulLimb(x, Head(y)), ShlLimb(Mul(x, Tail(y))))

Zeros(n) == [i \in 1 .. n |-> 0]

\* x * 2^k
Shl(x, k) ==
    IF x = <<>> THEN <<>>
    ELSE Zeros(k \div LimbBits) \o MulLimb(x, 2 ^ (k % LimbBits))

BitLenLimb(d) == CHOOSE n \in 0 .. LimbBits : 2 ^ n > d /\ (n = 0 \/ 2 ^ (n - 1) <= d)

\* the number of bits of x; 0 for zero
BitLen(x) == IF x = <<>> THEN 0 ELSE LimbBits * (Len(x) - 1) + BitLenLimb(x[Len(x)])

\* one step of short division: the quotient limb cur div d joins those of
\* the lower limbs
ShortDivStep(rest, cur, d) == [q |-> Append(rest.q, cur \div d), r |-> rest.r]

RECURSIVE ShortDivFrom(_, _, _, _)
\* short division by a limb d: limbs i, i-1, .., 1 of x are still to be
\* brought down, rem < d is what the higher limbs left
ShortDivFrom(x, d, i, rem) ==
    IF i = 0 THEN [q |-> <<>>, r |-> rem]
    ELSE ShortDivStep(ShortDivFrom(x, d, i - 1, (rem * Base + x[i]) % d),
                      rem * Base + x[i], d)

TrimQuotient(qr) == [q |-> Trim(qr.q), r |-> qr.r]

\* [q |-> x div d, r |-> x mod d] for a limb d > 0; r is an integer
ShortDiv(x, d) == TrimQuotient(ShortDivFrom(x, d, Len(x), 0))

\* a quotient with whether anything was lost
WithSticky(q, lost) == [q |-> q, sticky |-> lost]

ShrBy(x, drop, qr) ==
    WithSticky(qr.q, qr.r # 0 \/ \E i \in 1 .. drop : x[i] # 0)

ShrLimbs(x, drop, k) ==
    ShrBy(x, drop, ShortDiv(SubSeq(x, drop + 1, Len(x)), 2 ^ (k % LimbBits)))

\* [q |-> x div 2^k, sticky |-> x mod 2^k # 0]
Shr(x, k) == ShrLimbs(x, Min(k \div LimbBits, Len(x)), k)

RECURSIVE Correct(_, _, _)
\* the largest q <= est with q * d <= r
Correct(r, d, est) ==
    IF Cmp(MulLimb(d, est), r) > 0 THEN Correct(r, d, est - 1) ELSE est

\* the estimate of the next quotient limb from the top limbs of r and d
Estimate(r, d) ==
    Min(Base - 1,
        (Limb(r, Len(d) + 1) * Base + Limb(r, Len(d))) \div d[Len(d)])

RECURSIVE LongDivFrom(_, _, _, _, _)
LongDivNext(n, d, i, q, r, ql) ==
    LongDivFrom(n, d, i - 1, <<ql>> \o q, Sub(r, MulLimb(d, ql)))

LongDivStep(n, d, i, q, r) ==
    LongDivNext(n, d, i, q, r, Correct(r, d, Estimate(r, d)))

\* schoolbook long division by d of at least two limbs, the top one at
\* least Base / 2: limbs i, i-1, .., 1 of n are still to be brought down and
\* r < d throughout.  The quotient limb is estimated from the top limbs of
\* r and d (the estimate is never too small) and corrected downwards.
LongDivFrom(n, d, i, q, r) ==
    IF i = 0 THEN WithSticky(Trim(q), r # <<>>)
    ELSE LongDivStep(n, d, i, q, Trim(<<n[i]>> \o r))

LongDiv(n, d) == LongDivFrom(n, d, Len(n), <<>>, <<>>)

ShortDivSticky(qr) == WithSticky(qr.q, qr.r # 0)

\* [q |-> n div d, sticky |-> n mod d # 0] for d > 0
DivMod(n, d) ==
    IF Len(d) = 1
    THEN ShortDivSticky(ShortDiv(n, d[1]))
    ELSE LongDiv(Shl(n, LimbBits - BitLenLimb(d[Len(d)])),
                 Shl(d, LimbBits - BitLenLimb(d[Len(d)])))

-----------------------------------------------------------------------------
(* f64: IEEE 754 binary64, round to nearest, ties to even.  A value is     *)
(* [m, e] standing for m * 2^e with m of exactly 53 bits, or m = <<>>, e = *)
(* 0 for +0.0.  The program's values are finite, non-negative and between  *)
(* 2^-16 and 2^5 when not zero, so signs, subnormals, infinities and NaN   *)
(* never arise.                                                            *)

Precision == 53

Zero == [m |-> <<>>, e |-> 0]

\* a significand of Precision or Precision + 1 bits, brought to Precision
Renormalized(m, e) ==
    IF BitLen(m) > Precision
    THEN [m |-> ShortDiv(m, 2).q, e |-> e + 1]
    ELSE [m |-> m, e |-> e]

\* round to nearest, ties to even: qr.q is the significand, qr.r the bits
\* below it, half the weight of the first of them
Nearest(qr, half, sticky, e) ==
    Renormalized(IF \/ qr.r > half
                    \/ qr.r = half /\ (sticky \/ qr.q[1] % 2 = 1)
                 THEN Add(qr.q, <<1>>)
                 ELSE qr.q,
                 e)

RoundAt(q, sticky, e, t) == Nearest(ShortDiv(q, 2 ^ t), 2 ^ (t - 1), sticky, e + t)

\* q * 2^e, plus a positive amount below 2^e when sticky, rounded to the
\* nearest f64; q has more than Precision bits
RoundBits(q, sticky, e) == RoundAt(q, sticky, e, BitLen(q) - Precision)

RoundSticky(qs, e) == RoundBits(qs.q, qs.sticky, e)

RoundNatAt(n, e, k) ==
    RoundSticky(IF k <= 0 THEN WithSticky(Shl(n, -k), FALSE) ELSE Shr(n, k),
                e + k)

\* the natural n > 0 times 2^e, rounded to the nearest f64
RoundNat(n, e) == RoundNatAt(n, e, BitLen(n) - (Precision + 2))

RoundQuotient(n, d, e, k) ==
    RoundSticky(DivMod(IF k >= 0 THEN Shl(n, k) ELSE n,
                       IF k >= 0 THEN d ELSE Shl(d, -k)),
                e - k)

\* n / d * 2^e rounded to the nearest f64, for naturals n, d > 0
Round(n, d, e) == RoundQuotient(n, d, e, Precision + 2 + BitLen(d) - BitLen(n))

RECURSIVE Pow10(_)
Pow10(k) == IF k = 0 THEN <<1>> ELSE MulLimb(Pow10(k - 1), 10)

\* a decimal literal digits * 10^-scale of the source, as rustc reads it
Lit(digits, scale) == Round(FromInt(digits), Pow10(scale), 0)

\* `v as f64` for an integer v >= 0
FromU8(v) == IF v = 0 THEN Zero ELSE RoundNat(FromInt(v), 0)

\* the two significands brought to the common exponent Min(x.e, y.e)
Aligned(x, y) ==
    [x |-> Shl(x.m, x.e - Min(x.e, y.e)),
     y |-> Shl(y.m, y.e - Min(x.e, y.e)),
     e |-> Min(x.e, y.e)]

AddAligned(a) == RoundNat(Add(a.x, a.y), a.e)

FAdd(x, y) ==
    IF x.m = <<>> THEN y
    ELSE IF y.m = <<>> THEN x
    ELSE AddAligned(Aligned(x, y))

FMul(x, y) ==
    IF x.m = <<>> \/ y.m = <<>> THEN Zero
    ELSE RoundNat(Mul(x.m, y.m), x.e + y.e)

\* x / y for y > 0
FDiv(x, y) ==
    IF x.m = <<>> THEN Zero ELSE Round(x.m, y.m, x.e - y.e)

CmpAligned(a) == Cmp(a.x, a.y)

\* -1, 0, 1 as x < y, x == y, x > y
FCmp(x, y) ==
    IF x.m = <<>> /\ y.m = <<>> THEN 0
    ELSE IF x.m = <<>> THEN -1
    ELSE IF y.m = <<>> THEN 1
    ELSE CmpAligned(Aligned(x, y))

FLe(x, y) == FCmp(x, y) <= 0
FGt(x, y) == FCmp(x, y) > 0

-----------------------------------------------------------------------------
(* f64::powf(x, 2.4).  The exponent 2.4 is not a ratio of small integers   *)
(* in binary64, so the power is tabulated: one row                         *)
(*   <<xhi, xlo, xe, yhi, ylo, ye>>                                        *)
(* for each of the 245 arguments x = (v / 255.0 + 0.055) / 1.055, v in     *)
(* 11 .. 255, the program can pass, with x = (xhi * 2^27 + xlo) * 2^xe and *)
(* powf(x, 2.4) = (yhi * 2^27 + ylo) * 2^ye, the binary64 nearest to the   *)
(* real x^2.4.  The row is found by the argument's bits, so the arithmetic *)
(* that leads to x is checked against the table too.                       *)

PowfTable == <<
    <<49940319, 126634384, -56, 57493046, 86351001, -61>>,
    <<51935937, 16650931, -56, 63161914, 118266333, -61>>,
    <<53931554, 40885208, -56, 34572055, 126190505, -60>>,
    <<55927171, 65119483, -56, 37722199, 116220961, -60>>,
    <<57922788, 89353760, -56, 41033717, 127263353, -60>>,
    <<59918405, 113588035, -56, 44508889, 75221288, -60>>,
    <<61914023, 3604584, -56, 48149947, 55626005, -60>>,
    <<63909640, 27838860, -56, 51959080, 3257697, -60>>,
    <<65905257, 52073137, -56, 55938433, 129594193, -60>>,
    <<33950437, 38153706, -55, 60090115, 127885355, -60>>,
    <<34948245, 117379709, -55, 64416194, 101284048, -60>>,
    <<35946054, 62387982, -55, 34459351, 64656056, -59>>,
    <<36943863, 7396257, -55, 36799819, 42631236, -59>>,
    <<37941671, 86622258, -55, 39230483, 54463203, -59>>,
    <<38939480, 31630533, -55, 41752310, 62777701, -59>>,
    <<39937288, 110856534, -55, 44366252, 11504517, -59>>,
    <<40935097, 55864809, -55, 47073245, 42809097, -59>>,
    <<41932906, 873083, -55, 49874213, 37598899, -59>>,
    <<42930714, 80099085, -55, 52770065, 90682657, -59>>,
    <<43928523, 25107359, -55, 55761699, 41948861, -59>>,
    <<44926331, 104333361, -55, 58849998, 77200054, -59>>,
    <<45924140, 49341635, -55, 62035835, 117273614, -59>>,
    <<46921948, 128567637, -55, 65320072, 9013311, -59>>,
    <<47919757, 73575911, -55, 34351778, 57853588, -58>>,
    <<48917566, 18584186, -55, 36093564, 79875298, -58>>,
    <<49915374, 97810187, -55, 37885808, 105034098, -58>>,
    <<50913183, 42818462, -55, 39728920, 28198589, -58>>,
    <<51910991, 122044463, -55, 41623303, 28810251, -58>>,
    <<52908800, 67052738, -55, 43569357, 54435748, -58>>,
    <<53906609, 12061011, -55, 45567477, 108610323, -58>>,
    <<54904417, 91287014, -55, 47618055, 863726, -58>>,
    <<55902226, 36295288, -55, 49721475, 35386284, -58>>,
    <<56900034, 115521290, -55, 51878120, 88255963, -58>>,
    <<57897843, 60529564, -55, 54088369, 26069173, -58>>,
    <<58895652, 5537838, -55, 56352594, 123846688, -58>>,
    <<59893460, 84763840, -55, 58671168, 5864409, -58>>,
    <<60891269, 29772114, -55, 61044455, 1764383, -58>>,
    <<61889077, 108998116, -55, 63472818, 86145994, -58>>,
    <<62886886, 54006391, -55, 65956618, 25551285, -58>>,
    <<63884694, 133232393, -55, 34248104, 98003064, -57>>,
    <<64882503, 78240667, -55, 35545972, 59178790, -57>>,
    <<65880312, 23248940, -55, 36872086, 107181179, -57>>,
    <<66878120, 102474944, -55, 38226620, 103441962, -57>>,
    <<33937964, 90850473, -54, 39609745, 102010129, -57>>,
    <<34436868, 130463474, -54, 41021631, 86108879, -57>>,
    <<34935773, 35858746, -54, 42462446, 107155711, -57>>,
    <<35434677, 75471748, -54, 43932358, 20949200, -57>>,
    <<35933581, 115084749, -54, 45431531, 28991184, -57>>,
    <<36432486, 20480022, -54, 46960130, 11687150, -57>>,
    <<36931390, 60093022, -54, 48518317, 69351918, -57>>,
    <<37430294, 99706024, -54, 50106254, 123544615, -57>>,
    <<37929199, 5101297, -54, 51724102, 55134983, -57>>,
    <<38428103, 44714298, -54, 53372018, 110672332, -57>>,
    <<38927007, 84327299, -54, 55050161, 100668297, -57>>,
    <<39425911, 123940299, -54, 56758687, 74153916, -57>>,
    <<39924816, 29335573, -54, 58497751, 53597474, -57>>,
    <<40423720, 68948574, -54, 60267507, 38147826, -57>>,
    <<40922624, 108561575, -54, 62068108, 6772787, -57>>,
    <<41421529, 13956848, -54, 63899705, 55514847, -57>>,
    <<41920433, 53569849, -54, 65762449, 131997768, -57>>,
    <<42419337, 93182850, -54, 33828245, 86247269, -56>>,
    <<42918241, 132795851, -54, 34790988, 119453717, -56>>,
    <<43417146, 38191124, -54, 35769528, 59396498, -56>>,
    <<43916050, 77804125, -54, 36763937, 66632930, -56>>,
    <<44414954, 117417126, -54, 37774288, 99997402, -56>>,
    <<44913859, 22812399, -54, 38800654, 52042066, -56>>,
    <<45412763, 62425400, -54, 39843106, 18659659, -56>>,
    <<45911667, 102038402, -54, 40901715, 31801234, -56>>,
    <<46410572, 7433674, -54, 41976552, 60596495, -56>>,
    <<46909476, 47046675, -54, 43067688, 12442619, -56>>,
    <<47408380, 86659676, -54, 44175192, 2498137, -56>>,
    <<47907284, 126272678, -54, 45299133, 86276780, -56>>,
    <<48406189, 31667951, -54, 46439581, 126430932, -56>>,
    <<48905093, 71280951, -54, 47596605, 62161278, -56>>,
    <<49403997, 110893952, -54, 48770272, 44382673, -56>>,
    <<49902902, 16289226, -54, 49960650, 33994023, -56>>,
    <<50401806, 55902227, -54, 51167806, 71212650, -56>>,
    <<50900710, 95515228, -54, 52391808, 8014448, -56>>,
    <<51399615, 910500, -54, 53632721, 45857929, -56>>,
    <<51898519, 40523502, -54, 54890612, 65427053, -56>>,
    <<52397423, 80136503, -54, 56165547, 30094916, -56>>,
    <<52896327, 119749504, -54, 57457590, 120931844, -56>>,
    <<53395232, 25144776, -54, 58766808, 66387550, -56>>,
    <<53894136, 64757778, -54, 60093264, 82567216, -56>>,
    <<54393040, 104370779, -54, 61437023, 68658853, -56>>,
    <<54891945, 9766052, -54, 62798149, 10302648, -56>>,
    <<55390849, 49379053, -54, 64176704, 114507779, -56>>,
    <<55889753, 88992054, -54, 65572754, 5028686, -56>>,
    <<56388657, 128605055, -54, 66986359, 65209026, -56>>,
    <<56887562, 34000328, -54, 34208791, 115336689, -55>>,
    <<57386466, 73613329, -54, 34933244, 62090639, -55>>,
    <<57885370, 113226331, -54, 35666568, 64995439, -55>>,
    <<58384275, 18621603, -54, 36408794, 93253599, -55>>,
    <<58883179, 58234604, -54, 37159953, 94764784, -55>>,
    <<59382083, 97847605, -54, 37920075, 130634058, -55>>,
    <<59880988, 3242879, -54, 38689191, 107020579, -55>>,
    <<60379892, 42855879, -54, 39467331, 43851003, -55>>,
    <<60878796, 82468880, -54, 40254524, 75091445, -55>>,
    <<61377700, 122081881, -54, 41050801, 46360398, -55>>,
    <<61876605, 27477155, -54, 41856191, 52060117, -55>>,
    <<62375509, 67090156, -54, 42670724, 32978399, -55>>,
    <<62874413, 106703156, -54, 43494429, 44973683, -55>>,
    <<63373318, 12098429, -54, 44327335, 125001780, -55>>,
    <<63872222, 51711431, -54, 45169473, 22919841, -55>>,
    <<64371126, 91324432, -54, 46020870, 7027260, -55>>,
    <<64870030, 130937433, -54, 46881555, 58989099, -55>>,
    <<65368935, 36332705, -54, 47751558, 8278975, -55>>,
    <<65867839, 75945708, -54, 48630906, 69270656, -55>>,
    <<66366743, 115558709, -54, 49519629, 36147971, -55>>,
    <<66865648, 20953982, -54, 50417754, 88423261, -55>>,
    <<33682276, 30283491, -53, 51325310, 120056639, -55>>,
    <<33931728, 50089992, -53, 52242326, 8095353, -55>>,
    <<34181180, 69896492, -53, 53168828, 15526923, -55>>,
    <<34430632, 89702992, -53, 54104844, 120386686, -55>>,
    <<34680084, 109509493, -53, 55050404, 15950236, -55>>,
    <<34929536, 129315994, -53, 56005533, 50446339, -55>>,
    <<35178989, 14904767, -53, 56970260, 19282698, -55>>,
    <<35428441, 34711267, -53, 57944611, 104751917, -55>>,
    <<35677893, 54517767, -53, 58928615, 70903663, -55>>,
    <<35927345, 74324268, -53, 59922298, 69026302, -55>>,
    <<36176797, 94130768, -53, 60925687, 100948049, -55>>,
    <<36426249, 113937270, -53, 61938810, 19205992, -55>>,
    <<36675701, 133743770, -53, 62961692, 64082912, -55>>,
    <<36925154, 19332542, -53, 63994361, 58463984, -55>>,
    <<37174606, 39139043, -53, 65036843, 79085523, -55>>,
    <<37424058, 58945543, -53, 66089165, 54039117, -55>>,
    <<37673510, 78752044, -53, 33575676, 82789715, -54>>,
    <<37922962, 98558544, -53, 34111716, 89593722, -54>>,
    <<38172414, 118365044, -53, 34652715, 124513082, -54>>,
    <<38421867, 3953818, -53, 35198687, 56390494, -54>>,
    <<38671319, 23760318, -53, 35749644, 15664026, -54>>,
    <<38920771, 43566818, -53, 36305598, 126002598, -54>>,
    <<39170223, 63373319, -53, 36866564, 101722519, -54>>,
    <<39419675, 83179819, -53, 37432554, 53162417, -54>>,
    <<39669127, 102986320, -53, 38003580, 84097511, -54>>,
    <<39918579, 122792820, -53, 38579656, 23370467, -54>>,
    <<40168032, 8381592, -53, 39160793, 96045304, -54>>,
    <<40417484, 28188094, -53, 39747005, 118165208, -54>>,
    <<40666936, 47994594, -53, 40338305, 33686584, -54>>,
    <<40916388, 67801095, -53, 40934704, 48758961, -54>>,
    <<41165840, 87607595, -53, 41536215, 94915201, -54>>,
    <<41415292, 107414095, -53, 42142851, 97567164, -54>>,
    <<41664744, 127220596, -53, 42754624, 110282671, -54>>,
    <<41914197, 12809368, -53, 43371547, 46408349, -54>>,
    <<42163649, 32615869, -53, 43993631, 81780245, -54>>,
    <<42413101, 52422370, -53, 44620889, 117909417, -54>>,
    <<42662553, 72228870, -53, 45253334, 50473048, -54>>,
    <<42912005, 92035371, -53, 45890977, 37804715, -54>>,
    <<43161457, 111841871, -53, 46533830, 98295163, -54>>,
    <<43410909, 131648372, -53, 47181906, 110445474, -54>>,
    <<43660362, 17237144, -53, 47835217, 81354873, -54>>,
    <<43909814, 37043644, -53, 48493775, 12554589, -54>>,
    <<44159266, 56850145, -53, 49157591, 34276394, -54>>,
    <<44408718, 76656646, -53, 49826678, 2849477, -54>>,
    <<44658170, 96463147, -53, 50501047, 37620697, -54>>,
    <<44907622, 116269647, -53, 51180710, 118350001, -54>>,
    <<45157075, 1858419, -53, 51865680, 85258343, -54>>,
    <<45406527, 21664920, -53, 52555968, 41728078, -54>>,
    <<45655979, 41471420, -53, 53251585, 85914033, -54>>,
    <<45905431, 61277921, -53, 53952544, 42353953, -54>>,
    <<46154883, 81084421, -53, 54658855, 133102333, -54>>,
    <<46404335, 100890922, -53, 55370532, 38250942, -54>>,
    <<46653787, 120697423, -53, 56087584, 103932309, -54>>,
    <<46903240, 6286195, -53, 56810025, 185802, -54>>,
    <<47152692, 26092695, -53, 57537864, 63177659, -54>>,
    <<47402144, 45899196, -53, 58271114, 87283589, -54>>,
    <<47651596, 65705696, -53, 59009786, 130436701, -54>>,
    <<47901048, 85512197, -53, 59753892, 111515358, -54>>,
    <<48150500, 105318697, -53, 60503443, 78819058, -54>>,
    <<48399952, 125125198, -53, 61258450, 75890629, -54>>,
    <<48649405, 10713971, -53, 62018925, 7337858, -54>>,
    <<48898857, 30520471, -53, 62784878, 41525517, -54>>,
    <<49148309, 50326972, -53, 63556321, 73742789, -54>>,
    <<49397761, 70133472, -53, 64333265, 128894246, -54>>,
    <<49647213, 89939972, -53, 65115722, 93101732, -54>>,
    <<49896665, 109746473, -53, 65903702, 116394371, -54>>,
    <<50146117, 129552973, -53, 66697217, 75873986, -54>>,
    <<50395570, 15141747, -53, 33748138, 123419826, -53>>,
    <<50645022, 34948247, -53, 34150447, 47431755, -53>>,
    <<50894474, 54754747, -53, 34555539, 77436983, -53>>,
    <<51143926, 74561248, -53, 34963421, 8962128, -53>>,
    <<51393378, 94367748, -53, 35374097, 38028488, -53>>,
    <<51642830, 114174249, -53, 35787573, 90080235, -53>>,
    <<51892282, 133980749, -53, 36203855, 88436463, -53>>,
    <<52141735, 19569521, -53, 36622948, 88525330, -53>>,
    <<52391187, 39376023, -53, 37044858, 9464794, -53>>,
    <<52640639, 59182523, -53, 37469589, 36731781, -53>>,
    <<52890091, 78989024, -53, 37897147, 85307086, -53>>,
    <<53139543, 98795524, -53, 38327538, 68126417, -53>>,
    <<53388995, 118602024, -53, 38760767, 30313547, -53>>,
    <<53638448, 4190797, -53, 39196839, 14977799, -53>>,
    <<53887900, 23997297, -53, 39635759, 63229088, -53>>,
    <<54137352, 43803798, -53, 40077533, 79975053, -53>>,
    <<54386804, 63610299, -53, 40522166, 102371187, -53>>,
    <<54636256, 83416799, -53, 40969664, 31399884, -53>>,
    <<54885708, 103223300, -53, 41420031, 34537963, -53>>,
    <<55135160, 123029800, -53, 41873273, 8899899, -53>>,
    <<55384613, 8618572, -53, 42329394, 118122744, -53>>,
    <<55634065, 28425073, -53, 42788401, 121291309, -53>>,
    <<55883517, 48231573, -53, 43250299, 44040467, -53>>,
    <<56132969, 68038074, -53, 43715092, 44350945, -53>>,
    <<56382421, 87844575, -53, 44182786, 9909477, -53>>,
    <<56631873, 107651075, -53, 44653385, 94992923, -53>>,
    <<56881325, 127457576, -53, 45126896, 49392675, -53>>,
    <<57130778, 13046348, -53, 45603323, 23733912, -53>>,
    <<57380230, 32852849, -53, 46082671, 32617453, -53>>,
    <<57629682, 52659349, -53, 46564945, 88850071, -53>>,
    <<57879134, 72465849, -53, 47050151, 69239247, -53>>,
    <<58128586, 92272350, -53, 47538293, 117258666, -53>>,
    <<58378038, 112078851, -53, 48029377, 106189489, -53>>,
    <<58627490, 131885352, -53, 48523408, 41785590, -53>>,
    <<58876943, 17474124, -53, 49020390, 62285467, -53>>,
    <<59126395, 37280624, -53, 49520329, 35770850, -53>>,
    <<59375847, 57087125, -53, 50023229, 97049264, -53>>,
    <<59625299, 76893625, -53, 50529096, 110794631, -53>>,
    <<59874751, 96700126, -53, 51037935, 74211876, -53>>,
    <<60124203, 116506626, -53, 51549750, 117048183, -53>>,
    <<60373656, 2095399, -53, 52064547, 98950985, -53>>,
    <<60623108, 21901900, -53, 52582331, 12132165, -53>>,
    <<60872560, 41708400, -53, 53103105, 115596709, -53>>,
    <<61122012, 61514901, -53, 53626876, 129847143, -53>>,
    <<61371464, 81321401, -53, 54153649, 42200572, -53>>,
    <<61620916, 101127901, -53, 54683427, 106799263, -53>>,
    <<61870368, 120934402, -53, 55216217, 39314734, -53>>,
    <<62119821, 6523174, -53, 55752022, 90699919, -53>>,
    <<62369273, 26329675, -53, 56290848, 107675330, -53>>,
    <<62618725, 46136176, -53, 56832700, 69610089, -53>>,
    <<62868177, 65942676, -53, 57377582, 88531960, -53>>,
    <<63117629, 85749177, -53, 57925500, 6484102, -53>>,
    <<63367081, 105555677, -53, 58476457, 66623515, -53>>,
    <<63616533, 125362177, -53, 59030459, 107924411, -53>>,
    <<63865986, 10950949, -53, 59587511, 102058737, -53>>,
    <<64115438, 30757449, -53, 60147618, 19187979, -53>>,
    <<64364890, 50563952, -53, 60710783, 96408049, -53>>,
    <<64614342, 70370452, -53, 61277013, 32452226, -53>>,
    <<64863794, 90176952, -53, 61846311, 61442260, -53>>,
    <<65113246, 109983453, -53, 62418683, 13373397, -53>>,
    <<65362698, 129789953, -53, 62994132, 119429798, -53>>,
    <<65612151, 15378726, -53, 63572665, 72469428, -53>>,
    <<65861603, 35185226, -53, 64154285, 100774737, -53>>,
    <<66111055, 54991726, -53, 64738998, 28537366, -53>>,
    <<66360507, 74798227, -53, 65326807, 81173214, -53>>,
    <<66609959, 94604727, -53, 65917718, 80024678, -53>>,
    <<66859411, 114411228, -53, 66511735, 113457842, -53>>,
    <<33554432, 0, -52, 33554432, 0, -52>>
>>

\* the mantissa of x as <<hi, lo>> with m = hi * 2^27 + lo
HiLo(x) ==
    LET m == x.m
    IN  << m[2] \div 2 ^ 12 + m[3] * 2 ^ 3 + m[4] * 2 ^ 18,
           m[1] + (m[2] % 2 ^ 12) * Base >>

\* the f64 (hi * 2^27 + lo) * 2^e
Joined(hi, lo, e) == [m |-> Add(Shl(FromInt(hi), 27), FromInt(lo)), e |-> e]

powf(x) ==
    LET arg == HiLo(x) \o <<x.e>>
        row == CHOOSE i \in 1 .. Len(PowfTable) :
                   SubSeq(PowfTable[i], 1, 3) = arg
    IN  Joined(PowfTable[row][4], PowfTable[row][5], PowfTable[row][6])

-----------------------------------------------------------------------------
(* impl Color: relative_luminance, contrast_ratio.                         *)

\* the f64 literals of src/src/lib.rs, lines 78, 105 and 112 to 117
Lit_255_0 == Lit(255, 0)
Lit_0_03928 == Lit(3928, 5)
Lit_12_92 == Lit(1292, 2)
Lit_0_055 == Lit(55, 3)
Lit_1_055 == Lit(1055, 3)
Lit_0_2126 == Lit(2126, 4)
Lit_0_7152 == Lit(7152, 4)
Lit_0_0722 == Lit(722, 4)
Lit_0_05 == Lit(5, 2)

\* component_relative_luminance multiplying by 12.92 in the linear branch:
\* a fault the monotonicity of C7 has to detect
component_relative_luminance_times(color_component) ==
    LET c == FDiv(FromU8(color_component), Lit_255_0)
    IN  IF FLe(c, Lit_0_03928)
        THEN FMul(c, Lit_12_92)
        ELSE powf(FDiv(FAdd(c, Lit_0_055), Lit_1_055))

\* Color::component_relative_luminance
component_relative_luminance(color_component) ==
    LET c == FDiv(FromU8(color_component), Lit_255_0)
    IN  IF FLe(c, Lit_0_03928)
        THEN FDiv(c, Lit_12_92)
        ELSE powf(FDiv(FAdd(c, Lit_0_055), Lit_1_055))

\* component_relative_luminance at every u8, evaluated once
ComponentLuminance == [v \in U8 |-> component_relative_luminance(v)]

\* whether component_relative_luminance takes its linear branch at v
Linear(v) == FLe(FDiv(FromU8(v), Lit_255_0), Lit_0_03928)

\* the last channel value of the linear branch
LastLinear == CHOOSE v \in U8 : Linear(v) /\ ~ Linear(v + 1)

\* the channel values colors are made of: the extremes, the two values on
\* either side of the branch, and Shades values spread evenly between
Levels ==
    {0, LastLinear, LastLinear + 1, 255}
        \cup {(255 * i) \div (Shades + 1) : i \in 1 .. Shades}

Triples == Levels \X Levels \X Levels

\* relative_luminance with two digits of the green weight exchanged
\* (0.7512): a fault the range of C8 has to detect
relative_luminance_typo(self) ==
    FAdd(FAdd(FMul(Lit_0_2126, ComponentLuminance[self.r]),
              FMul(Lit(7512, 4), ComponentLuminance[self.g])),
         FMul(Lit_0_0722, ComponentLuminance[self.b]))

\* Color::relative_luminance
relative_luminance(self) ==
    LET red_luminance == ComponentLuminance[self.r]
        green_luminance == ComponentLuminance[self.g]
        blue_luminance == ComponentLuminance[self.b]
    IN  FAdd(FAdd(FMul(Lit_0_2126, red_luminance),
                  FMul(Lit_0_7152, green_luminance)),
             FMul(Lit_0_0722, blue_luminance))

\* the colors of the model
Colors == {from(tuple) : tuple \in Triples}

\* relative_luminance at every color of the model, evaluated once
Luminance == [self \in Colors |-> relative_luminance(self)]

\* (lighter, darker) without the comparison: a fault the symmetry of C4 has
\* to detect
LighterDarkerUnordered(self_luminance, other_luminance) ==
    <<self_luminance, other_luminance>>

\* let (lighter, darker) = if self_luminance > other_luminance { .. } else { .. }
LighterDarker(self_luminance, other_luminance) ==
    IF FGt(self_luminance, other_luminance)
    THEN <<self_luminance, other_luminance>>
    ELSE <<other_luminance, self_luminance>>

\* (darker + 0.05) / (lighter + 0.05): a fault the range of C5 has to detect
RatioInverted(lighter_darker) ==
    FDiv(FAdd(lighter_darker[2], Lit_0_05), FAdd(lighter_darker[1], Lit_0_05))

\* lighter / (darker + 0.05): a fault the identity of C6 has to detect
RatioMissingOffset(lighter_darker) ==
    FDiv(lighter_darker[1], FAdd(lighter_darker[2], Lit_0_05))

\* (lighter + 0.05) / (darker + 0.05)
Ratio(lighter_darker) ==
    FDiv(FAdd(lighter_darker[1], Lit_0_05), FAdd(lighter_darker[2], Lit_0_05))

\* Color::contrast_ratio
contrast_ratio(self, other) ==
    Ratio(LighterDarker(Luminance[self], Luminance[other]))

-----------------------------------------------------------------------------
(* The inputs of the parser.                                               *)

HexSample == {"0", "f", "F"}
BadChars == {"g", "+", WideChar}
LeadChars == {"#", "x", WideChar}
TailChars == {"0", WideChar}

Bodies ==
    {body \in [1 .. 6 -> HexSample \cup BadChars] :
        Cardinality({i \in 1 .. 6 : body[i] \in BadChars}) <= MaxBad}

Tails == UNION {[1 .. n -> TailChars] : n \in 0 .. MaxTail}

\* the inputs the specification names as failing: "#12" and "#GGGGGG"
Examples ==
    {<<"#", "1", "2">>, <<"#", "G", "G", "G", "G", "G", "G">>}

-----------------------------------------------------------------------------
(* The calls on colors: two colors are made, then one of the methods is    *)
(* called on them.                                                         *)

Black == <<0, 0, 0>>

Init ==
    /\ input = <<>>
    /\ parsed = <<>>
    /\ bytes1 \in Triples
    /\ bytes2 \in Triples
    /\ fg = <<>>
    /\ bg = <<>>
    /\ tuple_out = <<>>
    /\ from_out = <<>>
    /\ lum_fg = <<>>
    /\ lum_bg = <<>>
    /\ ratio = <<>>
    /\ ratio_rev = <<>>
    /\ pc = "start"

\* Color::new(r, g, b), for both colors
New ==
    /\ pc = "start"
    /\ fg' = << new(bytes1[1], bytes1[2], bytes1[3]) >>
    /\ bg' = << new(bytes2[1], bytes2[2], bytes2[3]) >>
    /\ pc' = "new"
    /\ UNCHANGED <<input, parsed, bytes1, bytes2, tuple_out, from_out,
                   lum_fg, lum_bg, ratio, ratio_rev>>

\* fg.rgb()
Rgb ==
    /\ pc = "new"
    /\ tuple_out' = << rgb(fg[1]) >>
    /\ pc' = "rgb"
    /\ UNCHANGED <<input, parsed, bytes1, bytes2, fg, bg, from_out,
                   lum_fg, lum_bg, ratio, ratio_rev>>

\* Color::from(bytes1)
FromTuple ==
    /\ pc = "new"
    /\ from_out' = << from(bytes1) >>
    /\ pc' = "from"
    /\ UNCHANGED <<input, parsed, bytes1, bytes2, fg, bg, tuple_out,
                   lum_fg, lum_bg, ratio, ratio_rev>>

\* Color::from(fg.rgb())
FromRgb ==
    /\ pc = "rgb"
    /\ from_out' = << from(tuple_out[1]) >>
    /\ pc' = "from_rgb"
    /\ UNCHANGED <<input, parsed, bytes1, bytes2, fg, bg, tuple_out,
                   lum_fg, lum_bg, ratio, ratio_rev>>

\* fg.relative_luminance() and bg.relative_luminance()
RelativeLuminance ==
    /\ pc = "new"
    /\ lum_fg' = << Luminance[fg[1]] >>
    /\ lum_bg' = << Luminance[bg[1]] >>
    /\ pc' = "relative_luminance"
    /\ UNCHANGED <<input, parsed, bytes1, bytes2, fg, bg, tuple_out,
                   from_out, ratio, ratio_rev>>

\* fg.contrast_ratio(&bg)
ContrastRatio ==
    /\ pc = "new"
    /\ ratio' = << contrast_ratio(fg[1], bg[1]) >>
    /\ pc' = "contrast_ratio"
    /\ UNCHANGED <<input, parsed, bytes1, bytes2, fg, bg, tuple_out,
                   from_out, lum_fg, lum_bg, ratio_rev>>

\* bg.contrast_ratio(&fg), after fg.contrast_ratio(&bg)
ContrastRatioRev ==
    /\ pc = "contrast_ratio"
    /\ ratio_rev' = << contrast_ratio(bg[1], fg[1]) >>
    /\ pc' = "contrast_ratio_rev"
    /\ UNCHANGED <<input, parsed, bytes1, bytes2, fg, bg, tuple_out,
                   from_out, lum_fg, lum_bg, ratio>>

Next ==
    \/ New
    \/ Rgb
    \/ FromTuple
    \/ FromRgb
    \/ RelativeLuminance
    \/ ContrastRatio
    \/ ContrastRatioRev

Spec == Init /\ [][Next]_vars

-----------------------------------------------------------------------------
(* The calls of the parser: Color::from_str on one input.                  *)

\* the input is a leading character, six more, and a tail; or a shorter
\* prefix of that; or one of the examples
InitParse ==
    /\ \/ \E lead \in LeadChars, body \in Bodies, tail \in Tails :
             input = <<lead>> \o body \o tail
       \/ \E lead \in LeadChars, body \in Bodies, len \in 0 .. 6 :
             input = SubSeq(<<lead>> \o body, 1, len)
       \/ input \in Examples
    /\ parsed = <<>>
    /\ bytes1 = Black
    /\ bytes2 = Black
    /\ fg = <<>>
    /\ bg = <<>>
    /\ tuple_out = <<>>
    /\ from_out = <<>>
    /\ lum_fg = <<>>
    /\ lum_bg = <<>>
    /\ ratio = <<>>
    /\ ratio_rev = <<>>
    /\ pc = "start"

\* Color::from_str(input)
FromStr ==
    /\ pc = "start"
    /\ parsed' = << from_str(input) >>
    /\ pc' = "from_str"
    /\ UNCHANGED <<input, bytes1, bytes2, fg, bg, tuple_out, from_out,
                   lum_fg, lum_bg, ratio, ratio_rev>>

\* color.rgb() on the parsed color, as in the documentation's examples
RgbOfParsed ==
    /\ pc = "from_str"
    /\ parsed[1].tag = "Ok"
    /\ tuple_out' = << rgb(parsed[1].val[1]) >>
    /\ pc' = "rgb"
    /\ UNCHANGED <<input, parsed, bytes1, bytes2, fg, bg, from_out,
                   lum_fg, lum_bg, ratio, ratio_rev>>

NextParse ==
    \/ FromStr
    \/ RgbOfParsed

SpecParse == InitParse /\ [][NextParse]_vars

-----------------------------------------------------------------------------
(* The properties of the parser, under SpecParse.                          *)

\* the base-16 value of a hexadecimal digit
HexValue ==
    [c \in {"0", "1", "2", "3", "4", "5", "6", "7", "8", "9"} |->
        CHOOSE n \in 0 .. 9 : DigitChars[n + 1] = c]
    @@ [c \in {"a", "b", "c", "d", "e", "f"} |->
        CHOOSE n \in 10 .. 15 : LowerChars[n - 9] = c]
    @@ [c \in {"A", "B", "C", "D", "E", "F"} |->
        CHOOSE n \in 10 .. 15 : UpperChars[n - 9] = c]

HexDigits == DOMAIN HexValue

\* the characters of str at indices 1 to 6 are hexadecimal digits
HexBody(str) == \A i \in 2 .. 7 : str[i] \in HexDigits

\* the color whose channels are the base-16 values of the characters at
\* indices [1,3), [3,5) and [5,7)
ColorOf(str) ==
    new(16 * HexValue[str[2]] + HexValue[str[3]],
        16 * HexValue[str[4]] + HexValue[str[5]],
        16 * HexValue[str[6]] + HexValue[str[7]])

Called == pc # "start"

\* C1: from_str succeeds on every string of the exact form #RRGGBB, with the
\* color whose r, g and b are the base-16 values of the characters at
\* [1,3), [3,5) and [5,7), whatever the case of the digits.
C1_ExactFormParses ==
    (Called /\ Len(input) = 7 /\ input[1] = "#" /\ HexBody(input))
        => parsed[1] = Ok(ColorOf(input))

\* "#fF00fF" has been parsed to Color(255, 0, 255)
C1_Witness ==
    /\ pc = "from_str"
    /\ input = <<"#", "f", "F", "0", "0", "f", "F">>
    /\ parsed[1] = Ok(new(255, 0, 255))

\* C2: on an input of at least 7 characters where one of the three
\* two-character fields is not made of two hexadecimal digits, from_str fails
\* with a parse error and returns no Color.
C2_BadFieldIsError ==
    (Called /\ Len(input) >= 7 /\ ~ HexBody(input))
        => parsed[1] = Err

\* C3: on an input shorter than 7 characters, from_str returns an error to
\* the caller, the same as for a digit that is not hexadecimal, and does not
\* abort.
C3_ShortInputIsError ==
    (Called /\ Len(input) < 7) => parsed[1] = Err

\* C10: on an input of 7 or more characters whose characters at indices 1 to
\* 6 are hexadecimal digits, from_str succeeds with the color of those six
\* digits, whatever the character at index 0 and whatever follows index 6.
C10_LeadAndTailIgnored ==
    (Called /\ Len(input) >= 7 /\ HexBody(input))
        => parsed[1] = Ok(ColorOf(input))

-----------------------------------------------------------------------------
(* The properties of the colors, under Spec.                               *)

One == Lit(1, 0)
TwentyOne == Lit(21, 0)

White == <<255, 255, 255>>

\* bytes2 is bytes1 with exactly one channel raised
OneChannelRaised ==
    \E k \in 1 .. 3 :
        /\ bytes1[k] < bytes2[k]
        /\ \A j \in (1 .. 3) \ {k} : bytes1[j] = bytes2[j]

\* C4: contrast_ratio is symmetric: fg.contrast_ratio(&bg) equals
\* bg.contrast_ratio(&fg) for all colors, of equal luminance or not.
C4_Symmetric ==
    pc = "contrast_ratio_rev" => ratio[1] = ratio_rev[1]

\* both orders have been computed for two colors of different luminance
C4_Witness ==
    /\ pc = "contrast_ratio_rev"
    /\ bytes1 = <<LastLinear, 255, 0>>
    /\ bytes2 = <<LastLinear + 1, 0, 255>>
    /\ ratio[1] = ratio_rev[1]
    /\ ratio[1] # One

\* C5: the contrast ratio lies in [1.0, 21.0], and is 21.0 exactly when one
\* color is pure black and the other pure white.
C5_Range ==
    pc = "contrast_ratio" =>
        /\ FLe(One, ratio[1])
        /\ FLe(ratio[1], TwentyOne)
        /\ (ratio[1] = TwentyOne) <=> ({bytes1, bytes2} = {Black, White})

\* white against black has given 21.0
C5_Witness ==
    /\ pc = "contrast_ratio"
    /\ bytes1 = White
    /\ bytes2 = Black
    /\ ratio[1] = TwentyOne

C7_Monotonic ==
    (pc = "relative_luminance" /\ OneChannelRaised)
        => FLe(lum_fg[1], lum_bg[1])

\* the green channel has been raised from the last value of the linear
\* branch to the first of the power branch, and the luminance has grown
C7_Witness ==
    /\ pc = "relative_luminance"
    /\ bytes1 = <<255, LastLinear, 0>>
    /\ bytes2 = <<255, LastLinear + 1, 0>>
    /\ FCmp(lum_fg[1], lum_bg[1]) < 0

\* C8: the relative luminance of every color is in [0.0, 1.0], exactly 0.0
\* for pure black and exactly 1.0 for pure white.
C8_Range ==
    pc = "relative_luminance" =>
        /\ FLe(Zero, lum_fg[1])
        /\ FLe(lum_fg[1], One)
        /\ bytes1 = Black => lum_fg[1] = Zero
        /\ bytes1 = White => lum_fg[1] = One

\* white has given 1.0 and black 0.0
C8_Witness ==
    /\ pc = "relative_luminance"
    /\ bytes1 = White
    /\ bytes2 = Black
    /\ lum_fg[1] = One
    /\ lum_bg[1] = Zero

\* C9: new(r, g, b).rgb() is (r, g, b), from((r, g, b)) is new(r, g, b), and
\* from(c.rgb()) is c, component by component.
C9_RoundTrip ==
    /\ pc = "rgb" => tuple_out[1] = bytes1
    /\ pc = "from" => from_out[1] = fg[1]
    /\ pc = "from_rgb" => from_out[1] = fg[1]

\* a color of three different channels has come back from from(c.rgb())
C9_Witness ==
    /\ pc = "from_rgb"
    /\ bytes1 = <<0, LastLinear, 255>>
    /\ from_out[1] = fg[1]
    /\ fg[1] = [r |-> 0, g |-> LastLinear, b |-> 255]

=============================================================================
